---- MODULE Spec2Model ----
(***************************************************************************)
(* Model of the territory simulation: the library engine of                *)
(* src/src/world.rs (World::new, update, get, set, draw), the overlay     *)
(* panel operations of src/src/gui.rs that mutate the world (Add empire,   *)
(* Randomize), and the engine of the binary, src/src/main.rs (its own      *)
(* World::new, update, get).                                               *)
(*                                                                         *)
(* Cells are records [owner, troops]; the flat row-major vector            *)
(* self.cells is a sequence, so the Rust index i is cells[i + 1].          *)
(***************************************************************************)
EXTENDS Integers, Sequences, FiniteSets, TLC

VARIABLES
    cells, width, height, empires, tick,  \* the fields of World
    panicked,   \* an assertion or a range check has failed: the program stopped
    paints,     \* number of World::set calls made by the painter
    call,       \* the last operation, its arguments and its result
    nbuf,       \* the new buffer of a generation computed cell by cell
    pending,    \* the cells of that generation not yet computed
    draws,      \* the random draws of that generation, one per cell
    seeded      \* the empire of the single-empire scenario, 0 outside it

vars == <<cells, width, height, empires, tick, panicked, paints, call,
          nbuf, pending, draws, seeded>>

par == <<nbuf, pending, draws>>

world == <<cells, width, height, empires, tick>>

(***************************************************************************)
(* Bounds of the exploration.                                              *)
(***************************************************************************)
MaxW == 2
MaxH == 2
MaxCells == 4
MaxTick == 3
MaxWork == 4
MaxPaint == 1
SeedSide == 3
SeedWork == 9
ParSeeds == 8
MaxEmpires == 2
MaxOwner == 2

MainSide == 4
MainTick == 4
MainSeeds == 6

(***************************************************************************)
(* Program constants.                                                      *)
(***************************************************************************)
\* u16::MAX, the largest value of Cell.troops
MaxTroops == 65535

\* u8::MAX, the largest value of Cell.troops in main.rs
MaxTroops8 == 255

\* the period of `(self.tick + i) % 5 == 0` in the engine of main.rs
DecayPeriod == 5

\* Cell::default()
CellDefault == [owner |-> 0, troops |-> 0]

\* Option<&Cell>
None == [some |-> FALSE, val |-> CellDefault]
Some(c) == [some |-> TRUE, val |-> c]

Min(a, b) == IF a < b THEN a ELSE b

(***************************************************************************)
(* Random inputs.  The multiplier of gen_range(0.98..1.01) is an f32 m     *)
(* with 0.98 <= m < 1.01; it is drawn here in thousandths.  The shuffle of *)
(* the 8 neighbour slots is drawn among the 8 rotations: the loop stops at *)
(* the first slot that qualifies, and every slot is first in one rotation. *)
(***************************************************************************)
MultOf(j) == IF j % 2 = 0 THEN 980 ELSE 1009
Mults == {MultOf(0), MultOf(1)}
Rots == 0..7
Draws == [rot : Rots, mult : Mults]

\* values painted through World::set by a caller: an owned cell
PaintTroops == {1, MaxTroops}
Palette == [owner : 1..MaxOwner, troops : PaintTroops]

\* rand::random::<u16>() of Randomize
RandTroops == {0, MaxTroops}

(***************************************************************************)
(* Arithmetic of the engine.                                               *)
(***************************************************************************)
\* a cast that keeps the low 16 bits instead of saturating
AsU16Wrap(v) == v % 65536

\* `v as u16` for a non-negative f32 v: truncation, saturating at u16::MAX
AsU16(v) == IF v < 0 THEN 0 ELSE Min(MaxTroops, v)

\* a generation without decay
DecaySkipped(t) == t

\* (cell.troops as f32 * 0.95) as u16.  The f32 product, truncated, equals
\* floor(95 t / 100) for every u16 t.
Decay(t) == AsU16((t * 95) \div 100)

\* (neighbor.troops as f32 * m) as u16, m in thousandths.  For the f32 0.98
\* the truncated product equals floor(98 n / 100) for every u16 n; for the
\* largest f32 below 1.01 it lies between floor(1.009 n) and floor(1.01 n).
Scale(n, m) == AsU16((n * m) \div 1000)

\* the truncated remainder of Rust's `%` on isize
RemTrunc(a, b) == IF a >= 0 THEN a % b ELSE -((-a) % b)

\* isize::rem_euclid for a positive divisor
RemEuclid(a, b) ==
    LET r == RemTrunc(a, b) IN IF r < 0 THEN r + b ELSE r

(***************************************************************************)
(* World::get: toroidal lookup, always Some.                               *)
(***************************************************************************)
GetIndex(x, y) == RemEuclid(y, height) * width + RemEuclid(x, width)

\* the clamped policy: no cell beyond an edge
GetClamped(g, x, y) ==
    IF x < 0 \/ x >= width \/ y < 0 \/ y >= height
    THEN None
    ELSE Some(g[y * width + x + 1])

Get(g, x, y) == Some(g[GetIndex(x, y) + 1])

\* the 8 lookups of update, in source order
Neighbors(g, x, y) ==
    << Get(g, x - 1, y),     Get(g, x + 1, y),
       Get(g, x, y - 1),     Get(g, x, y + 1),
       Get(g, x - 1, y - 1), Get(g, x + 1, y - 1),
       Get(g, x - 1, y + 1), Get(g, x + 1, y + 1) >>

\* the sixth lookup written with the offsets of the fifth
NeighborIndexesPasted(x, y) ==
    << GetIndex(x - 1, y),     GetIndex(x + 1, y),
       GetIndex(x, y - 1),     GetIndex(x, y + 1),
       GetIndex(x - 1, y - 1), GetIndex(x - 1, y - 1),
       GetIndex(x - 1, y + 1), GetIndex(x + 1, y + 1) >>

\* the flat indexes the 8 lookups of update resolve to, in source order
NeighborIndexes(x, y) ==
    << GetIndex(x - 1, y),     GetIndex(x + 1, y),
       GetIndex(x, y - 1),     GetIndex(x, y + 1),
       GetIndex(x - 1, y - 1), GetIndex(x + 1, y - 1),
       GetIndex(x - 1, y + 1), GetIndex(x + 1, y + 1) >>

\* neighbors.shuffle(..): the rotation by rot
Shuffle(s, rot) == [k \in 1..Len(s) |-> s[((k - 1 + rot) % Len(s)) + 1]]

(***************************************************************************)
(* The takeover loop of update: `for neighbor in neighbors.iter().flatten()`*)
(* from slot k on; both branches assign the same fields and break.         *)
(***************************************************************************)
\* the two assignments with the fields exchanged
CaptureSwapped(neighbor, m) ==
    [owner |-> Scale(neighbor.troops, m), troops |-> neighbor.owner]

\* cell.owner = neighbor.owner; cell.troops = (neighbor.troops as f32 * m) as u16
Capture(neighbor, m) ==
    [owner |-> neighbor.owner, troops |-> Scale(neighbor.troops, m)]

\* both branches reinforcing in place: the troops of the neighbour, the owner
\* of the cell
RECURSIVE TakeoverLoopInPlace(_, _, _, _)
TakeoverLoopInPlace(ns, k, cell, m) ==
    IF k > Len(ns) THEN cell
    ELSE IF ~ns[k].some THEN TakeoverLoopInPlace(ns, k + 1, cell, m)
    ELSE LET neighbor == ns[k].val IN
         IF neighbor.troops > cell.troops
         THEN [owner |-> cell.owner, troops |-> Scale(neighbor.troops, m)]
         ELSE TakeoverLoopInPlace(ns, k + 1, cell, m)

RECURSIVE TakeoverLoop(_, _, _, _)
TakeoverLoop(ns, k, cell, m) ==
    IF k > Len(ns) THEN cell
    ELSE IF ~ns[k].some THEN TakeoverLoop(ns, k + 1, cell, m)
    ELSE LET neighbor == ns[k].val IN
         IF neighbor.owner = cell.owner /\ neighbor.troops > cell.troops
         THEN Capture(neighbor, m)
         ELSE IF neighbor.troops > cell.troops
         THEN Capture(neighbor, m)
         ELSE TakeoverLoop(ns, k + 1, cell, m)

\* an unclaimed cell rising as an empire of its own
SettleUprising(cell) ==
    IF cell.owner = 0 THEN [owner |-> 1, troops |-> 1] ELSE cell

\* the final `if cell.owner == 0 { cell.troops = 0 }`
Settle(cell) == IF cell.owner = 0 THEN [cell EXCEPT !.troops = 0] ELSE cell

\* the body of the loops of update for the cell (x, y), reading the grid g
UpdateCell(g, x, y, d) ==
    LET cell0   == Get(g, x, y).val
        ns      == Shuffle(Neighbors(g, x, y), d.rot)
        decayed == [cell0 EXCEPT !.troops = Decay(cell0.troops)]
    IN  Settle(TakeoverLoop(ns, 1, decayed, d.mult))

\* the possible values of the cell (x, y) after one generation read from g
Outcomes(g, x, y) == { UpdateCell(g, x, y, d) : d \in Draws }

(***************************************************************************)
(* The loops of update: x outer, y inner; every read goes through          *)
(* self.get, hence to self.cells, which is not assigned before the loops   *)
(* end; every write goes to buf.                                           *)
(***************************************************************************)
\* reads served by the buffer being written
InPlace(old, buf) == buf

SelfCells(old, buf) == old

\* the k-th cell of the iteration, k in 1..width*height
OrderX(k) == (k - 1) \div height
OrderY(k) == (k - 1) % height

\* the set of buffers the first k iterations can produce from `old`
RECURSIVE UpdateLoop(_, _)
UpdateLoop(old, k) ==
    IF k = 0 THEN {old}
    ELSE LET x == OrderX(k)
             y == OrderY(k)
         IN  UNION { { [buf EXCEPT ![y * width + x + 1] = c] :
                         c \in Outcomes(SelfCells(old, buf), x, y) } :
                     buf \in UpdateLoop(old, k - 1) }

\* update with the draws of every cell fixed by `table`: the buffer after the
\* first k iterations
RECURSIVE SeqUpdate(_, _, _)
SeqUpdate(old, table, k) ==
    IF k = 0 THEN old
    ELSE LET buf == SeqUpdate(old, table, k - 1)
             x   == OrderX(k)
             y   == OrderY(k)
             i   == y * width + x + 1
         IN  [buf EXCEPT ![i] = UpdateCell(SelfCells(old, buf), x, y, table[i])]

NoCall == [op |-> "none", x |-> 0, y |-> 0, res |-> None]
Called(op) == [op |-> op, x |-> 0, y |-> 0, res |-> None]

(***************************************************************************)
(* World::new(width, height)                                               *)
(***************************************************************************)
Dims == { d \in (0..MaxW) \X (0..MaxH) : d[1] * d[2] <= MaxCells }

New(w, h) ==
    /\ width = w
    /\ height = h
    /\ cells = [i \in 1..(w * h) |-> CellDefault]
    /\ empires = <<>>
    /\ tick = 0

Init ==
    /\ \E d \in Dims : New(d[1], d[2])
    /\ panicked = FALSE
    /\ paints = 0
    /\ call = NoCall
    /\ nbuf = <<>>
    /\ pending = {}
    /\ draws = <<>>
    /\ seeded = 0

(***************************************************************************)
(* World::update: the loops, `self.cells = buf`, `self.tick += 1`.         *)
(***************************************************************************)
\* the increment placed inside the loops
TickPerCell(t) == t + width * height

TickAfter(t) == t + 1

UpdateWithin(work) ==
    /\ ~panicked
    /\ tick < MaxTick
    /\ (tick + 1) * width * height <= work
    /\ cells' \in UpdateLoop(cells, width * height)
    /\ tick' = TickAfter(tick)
    /\ call' = Called("update")
    /\ UNCHANGED <<width, height, empires, panicked, paints, par, seeded>>

Update == UpdateWithin(MaxWork)

(***************************************************************************)
(* World::set(x, y, val): two assertions, then the write.  A failed        *)
(* assertion panics: nothing is written and the program stops.             *)
(***************************************************************************)
\* a check of the flat index only
SetAssertsFlat(x, y) == y * width + x >= 0 /\ y * width + x < Len(cells)

SetAsserts(x, y) == (x >= 0 /\ x < width) /\ (y >= 0 /\ y < height)

\* the grid after the write of set on the grid g
SetCell(g, x, y, val) == [g EXCEPT ![y * width + x + 1] = val]

SetOp(x, y, val) ==
    /\ ~panicked
    /\ paints < MaxPaint
    /\ call' = [op |-> "set", x |-> x, y |-> y, res |-> Some(val)]
    /\ IF SetAsserts(x, y)
       THEN cells' = SetCell(cells, x, y, val) /\ UNCHANGED panicked
       ELSE panicked' = TRUE /\ UNCHANGED cells
    /\ paints' = paints + 1
    /\ UNCHANGED <<width, height, empires, tick, par, seeded>>

\* a painter that stays on the grid
Set ==
    \E x \in 0..(width - 1), y \in 0..(height - 1), val \in Palette :
        SetOp(x, y, val)

\* any caller: coordinates one step beyond every edge included
SetCall ==
    \E x \in (-1)..width, y \in (-1)..height, val \in Palette :
        SetOp(x, y, val)

(***************************************************************************)
(* A read of one cell through World::get by a caller.  rem_euclid panics   *)
(* on a zero divisor.                                                      *)
(***************************************************************************)
GetCall ==
    /\ ~panicked
    /\ \E x \in (-(width + 1))..(2 * width), y \in (-(height + 1))..(2 * height) :
         IF width = 0 \/ height = 0
         THEN /\ panicked' = TRUE
              /\ call' = [op |-> "get", x |-> x, y |-> y, res |-> None]
         ELSE /\ call' = [op |-> "get", x |-> x, y |-> y, res |-> Get(cells, x, y)]
              /\ UNCHANGED panicked
    /\ UNCHANGED <<world, paints, par, seeded>>

(***************************************************************************)
(* The "Add empire" button: push Empire { id: (len + 1) as u16, color }.   *)
(* The colour is display data and is left out of the record.               *)
(***************************************************************************)
\* the id taken from the length before the push, without the + 1
AddEmpireFromZero ==
    /\ ~panicked
    /\ Len(empires) < MaxEmpires
    /\ empires' = Append(empires, [id |-> Len(empires) % 65536])
    /\ call' = Called("add_empire")
    /\ UNCHANGED <<cells, width, height, tick, panicked, paints, par, seeded>>

AddEmpire ==
    /\ ~panicked
    /\ Len(empires) < MaxEmpires
    /\ empires' = Append(empires, [id |-> (Len(empires) + 1) % 65536])
    /\ call' = Called("add_empire")
    /\ UNCHANGED <<cells, width, height, tick, panicked, paints, par, seeded>>

(***************************************************************************)
(* The "Randomize" button: blank repaint, then one set per empire at a     *)
(* random cell with random troops.  gen_range(0..0) panics.                *)
(***************************************************************************)
\* a repaint sized by the width alone
BlankSquare == [i \in 1..(width * width) |-> CellDefault]

Blank == [i \in 1..(width * height) |-> CellDefault]

\* the grids the first k iterations of `for empire in world.empires.clone()`
\* can produce
\* the seed owned by the id after the empire's
RECURSIVE RandomizeLoopNextId(_)
RandomizeLoopNextId(k) ==
    IF k = 0 THEN {Blank}
    ELSE UNION { { SetCell(g, x, y, [owner |-> empires[k].id + 1, troops |-> t]) :
                     x \in 0..(width - 1), y \in 0..(height - 1), t \in RandTroops } :
                 g \in RandomizeLoopNextId(k - 1) }

RECURSIVE RandomizeLoop(_)
RandomizeLoop(k) ==
    IF k = 0 THEN {Blank}
    ELSE UNION { { SetCell(g, x, y, [owner |-> empires[k].id, troops |-> t]) :
                     x \in 0..(width - 1), y \in 0..(height - 1), t \in RandTroops } :
                 g \in RandomizeLoop(k - 1) }

Randomize ==
    /\ ~panicked
    /\ IF Len(empires) > 0 /\ (width = 0 \/ height = 0)
       THEN cells' = Blank /\ panicked' = TRUE
       ELSE cells' \in RandomizeLoop(Len(empires)) /\ UNCHANGED panicked
    /\ call' = Called("randomize")
    /\ UNCHANGED <<width, height, empires, tick, paints, par, seeded>>

Next ==
    \/ Update
    \/ Set
    \/ AddEmpire
    \/ Randomize

Spec == Init /\ [][Next]_vars

(***************************************************************************)
(* World::draw on a frame of one pixel per cell: the colour of an owned    *)
(* cell is read at self.empires[(cell.owner - 1) as usize]; an index       *)
(* beyond the vector panics.  The pixels are display data.                 *)
(***************************************************************************)
ColorInBounds(c) == c.owner - 1 \in 0..(Len(empires) - 1)

Draw ==
    /\ ~panicked
    /\ panicked' = (\E i \in DOMAIN cells :
                       cells[i].owner # 0 /\ ~ColorInBounds(cells[i]))
    /\ call' = Called("draw")
    /\ UNCHANGED <<world, paints, par, seeded>>

(***************************************************************************)
(* The World Info panel: one entry (empire, cells, troops) per empire,     *)
(* sorted by the troop total and reversed; under each entry the label      *)
(* "Winner winner chicken dinner" is shown when the count of the other     *)
(* empires v with empires_sorted[v.id as usize - 1].1 == 0 equals          *)
(* empires.len() - 1.  The labels shown are recorded in the call.          *)
(***************************************************************************)
\* world.cells.iter().filter(|v| v.owner == e.id).count()
CellsOf(id) == Cardinality({ i \in DOMAIN cells : cells[i].owner = id })

\* the sum of v.troops over the first n cells owned by id
RECURSIVE TroopsUpTo(_, _)
TroopsUpTo(id, n) ==
    IF n = 0 THEN 0
    ELSE TroopsUpTo(id, n - 1)
           + (IF cells[n].owner = id THEN cells[n].troops ELSE 0)

TroopsOf(id) == TroopsUpTo(id, Len(cells))

\* .sorted_by_key(|v| v.2).rev(): the registry position a comes before b
\* when a has more troops, or as many and a later place in world.empires
SortedBefore(a, b) ==
    \/ TroopsOf(empires[a].id) > TroopsOf(empires[b].id)
    \/ TroopsOf(empires[a].id) = TroopsOf(empires[b].id) /\ a > b

EmpiresSorted ==
    [k \in DOMAIN empires |->
        LET e == CHOOSE e \in DOMAIN empires :
                    Cardinality({ b \in DOMAIN empires : SortedBefore(b, e) }) = k - 1
        IN  [empire |-> empires[e],
             cells  |-> CellsOf(empires[e].id),
             troops |-> TroopsOf(empires[e].id)]]

\* the test above ui.label("Winner winner chicken dinner") for the k-th
\* entry of empires_sorted; the Rust index v.id - 1 is the position v.id here
WinnerShown(k) ==
    Cardinality({ v \in DOMAIN empires :
                    /\ empires[v].id # EmpiresSorted[k].empire.id
                    /\ EmpiresSorted[empires[v].id].cells = 0 })
        = Len(empires) - 1

WorldInfo ==
    /\ ~panicked
    /\ call' = [op |-> "world_info", x |-> 0, y |-> 0, res |-> None,
                 labels |-> { EmpiresSorted[k].empire.id :
                                k \in { k \in DOMAIN empires : WinnerShown(k) } }]
    /\ UNCHANGED <<world, panicked, paints, par, seeded>>

(***************************************************************************)
(* The overlay panel without the painter: the registry grows, the grid is  *)
(* reseeded, the engine runs.                                              *)
(***************************************************************************)
NextPanel ==
    \/ AddEmpire
    \/ Randomize
    \/ Update
    \/ Draw
    \/ WorldInfo

SpecPanel == Init /\ [][NextPanel]_vars

(***************************************************************************)
(* The interface of the grid alone: reads and writes at every coordinate.  *)
(***************************************************************************)
NextApi ==
    \/ SetCall
    \/ GetCall

SpecApi == Init /\ [][NextApi]_vars

(***************************************************************************)
(* The single-empire scenario: one empire e holds one cell with 65535      *)
(* troops on an otherwise unclaimed grid (e empires added, one cell set),  *)
(* then the engine runs.                                                   *)
(***************************************************************************)
SeedDims == (1..SeedSide) \X (1..SeedSide)

InitSeed ==
    /\ \E d \in SeedDims, e \in 1..MaxOwner :
         /\ width = d[1]
         /\ height = d[2]
         /\ empires = [k \in 1..e |-> [id |-> k]]
         /\ seeded = e
         /\ \E x \in 0..(d[1] - 1), y \in 0..(d[2] - 1) :
              LET val == [owner |-> e, troops |-> MaxTroops] IN
              /\ cells = [i \in 1..(d[1] * d[2]) |->
                            IF i = y * d[1] + x + 1 THEN val ELSE CellDefault]
              /\ call = [op |-> "set", x |-> x, y |-> y, res |-> Some(val)]
    /\ tick = 0
    /\ panicked = FALSE
    /\ paints = 1
    /\ nbuf = <<>>
    /\ pending = {}
    /\ draws = <<>>

SeedUpdate == UpdateWithin(SeedWork)

NextSeed == SeedUpdate

SpecSeed == InitSeed /\ [][NextSeed]_vars

(***************************************************************************)
(* One generation computed cell by cell in any order: each step is one     *)
(* worker running the loop body of update for one pending cell, reading    *)
(* self.cells and writing its own slot of the new buffer; the join         *)
(* installs the buffer.  The draws of the generation are fixed beforehand. *)
(***************************************************************************)
ParCells == { CellDefault,
              [owner |-> 1, troops |-> MaxTroops],
              [owner |-> 2, troops |-> 1] }

DrawTables(n) ==
    { [i \in 1..n |-> [rot |-> (s + 3 * i) % 8, mult |-> MultOf(s + i)]] :
        s \in 0..(ParSeeds - 1) }

InitPar ==
    /\ \E d \in Dims :
         /\ d[1] * d[2] >= 1
         /\ width = d[1]
         /\ height = d[2]
         /\ cells \in [1..(d[1] * d[2]) -> ParCells]
         /\ draws \in DrawTables(d[1] * d[2])
    /\ nbuf = cells
    /\ pending = DOMAIN cells
    /\ empires = <<>>
    /\ tick = 0
    /\ panicked = FALSE
    /\ paints = 0
    /\ call = NoCall
    /\ seeded = 0

ParCell ==
    /\ \E i \in pending :
         /\ nbuf' = [nbuf EXCEPT
                       ![i] = UpdateCell(SelfCells(cells, nbuf),
                                         (i - 1) % width, (i - 1) \div width,
                                         draws[i])]
         /\ pending' = pending \ {i}
    /\ UNCHANGED <<world, panicked, paints, call, draws, seeded>>

ParJoin ==
    /\ pending = {}
    /\ tick < MaxTick
    /\ (tick + 1) * width * height <= MaxWork
    /\ cells' = nbuf
    /\ tick' = TickAfter(tick)
    /\ call' = Called("update")
    /\ nbuf' = nbuf
    /\ pending' = DOMAIN cells
    /\ draws' \in DrawTables(Len(cells))
    /\ UNCHANGED <<width, height, empires, panicked, paints, seeded>>

NextPar ==
    \/ ParCell
    \/ ParJoin

SpecPar == InitPar /\ [][NextPar]_vars

(***************************************************************************)
(* The engine of src/src/main.rs: a World of its own with u8 troops, a     *)
(* clamped get, decay on the generations with (tick + i) % 5 = 0 and the   *)
(* count-ranked contention of the empires around a cell.                   *)
(***************************************************************************)
\* `v as u8` for a non-negative f32 v: truncation, saturating at u8::MAX
AsU8(v) == IF v < 0 THEN 0 ELSE Min(MaxTroops8, v)

\* gen_range(0.97..1.02), an f32 m with 0.97 <= m < 1.02, in thousandths
MainMultOf(j) == IF j % 2 = 0 THEN 970 ELSE 1019

\* get of main.rs: None beyond an edge
MainGet(g, x, y) ==
    IF x < width /\ y < height /\ x >= 0 /\ y >= 0
    THEN Some(g[y * width + x + 1])
    ELSE None

\* .into_iter().flatten().collect(): the cells of the present options
Flatten(s) ==
    LET present == SelectSeq(s, LAMBDA o : o.some)
    IN  [k \in 1..Len(present) |-> present[k].val]

MainNeighbors(g, x, y) ==
    Flatten(<< MainGet(g, x - 1, y),     MainGet(g, x + 1, y),
               MainGet(g, x, y - 1),     MainGet(g, x, y + 1),
               MainGet(g, x - 1, y - 1), MainGet(g, x + 1, y - 1),
               MainGet(g, x - 1, y + 1), MainGet(g, x + 1, y + 1) >>)

\* neighbors.iter().filter(|v| v.owner == id).count()
CountOf(ns, id) == Cardinality({ k \in DOMAIN ns : ns[k].owner = id })

NumOfFriendlies(cell, ns) ==
    IF cell.owner = 0 THEN 0 ELSE CountOf(ns, cell.owner)

\* (troops as f32 * (friendlies as f32 * 0.1)) as u8.  The f32 products,
\* truncated, equal floor(troops * friendlies / 10) for every u8 troops and
\* every count from 0 to 8.
MainDecay(t, friendlies) == AsU8((t * friendlies) \div 10)

\* let decay = (self.tick + i) % 5 == 0, i counted from 0
DecayDue(t, i) == (t + i) % DecayPeriod = 0

\* the positions in self.empires of the empires with a neighbour: filter_map
Present(ns) == { e \in DOMAIN empires : CountOf(ns, empires[e].id) >= 1 }

\* the order without the .rev(): fewest neighbours first
RankedBeforeAscending(ns, a, b) ==
    \/ CountOf(ns, empires[a].id) < CountOf(ns, empires[b].id)
    \/ CountOf(ns, empires[a].id) = CountOf(ns, empires[b].id) /\ a < b

\* .sorted_by_key(|v| v.2).rev(): the stable ascending sort on the count,
\* reversed, puts a before b when a has more neighbours, or as many and a
\* later place in self.empires
RankedBefore(ns, a, b) ==
    \/ CountOf(ns, empires[a].id) > CountOf(ns, empires[b].id)
    \/ CountOf(ns, empires[a].id) = CountOf(ns, empires[b].id) /\ a > b

Ranked(ns) ==
    [k \in 1..Cardinality(Present(ns)) |->
        CHOOSE e \in Present(ns) :
            Cardinality({ b \in Present(ns) : RankedBefore(ns, b, e) }) = k - 1]

\* cell.owner = enemy.0; cell.troops = (enemy.1.troops as f32 * m) as u8
MainCapture(id, rep, m) ==
    [owner |-> id, troops |-> AsU8((rep.troops * m) \div 1000)]

\* .filter(|v| v.owner == id).choose(..): one neighbour of the empire, here
\* the one the draw `pick` selects
Choose(ns, id, pick) ==
    LET of == SelectSeq(ns, LAMBDA v : v.owner = id)
    IN  of[(pick % Len(of)) + 1]

\* the comparison of the troops turned around
RECURSIVE ContendWeaker(_, _, _, _, _, _)
ContendWeaker(ns, ranked, k, cell, friendlies, d) ==
    IF k > Len(ranked) THEN cell
    ELSE LET id  == empires[ranked[k]].id
             rep == Choose(ns, id, d.pick)
         IN  IF (friendlies < 2 \/ rep.troops < cell.troops)
                  /\ CountOf(ns, id) >= 1
             THEN MainCapture(id, rep, d.mult)
             ELSE ContendWeaker(ns, ranked, k + 1, cell, friendlies, d)

\* the `for enemy in ...` loop from the k-th ranked empire on
RECURSIVE Contend(_, _, _, _, _, _)
Contend(ns, ranked, k, cell, friendlies, d) ==
    IF k > Len(ranked) THEN cell
    ELSE LET id  == empires[ranked[k]].id
             rep == Choose(ns, id, d.pick)
         IN  IF (friendlies < 2 \/ rep.troops > cell.troops)
                  /\ CountOf(ns, id) >= 1
             THEN MainCapture(id, rep, d.mult)
             ELSE Contend(ns, ranked, k + 1, cell, friendlies, d)

\* the cell returned as the loop left it
ExtinctSkipped(cell) == cell

\* the final `if cell.troops == 0 { cell.owner = 0 }`
Extinct(cell) == IF cell.troops = 0 THEN [cell EXCEPT !.owner = 0] ELSE cell

\* the cell before the contention: decayed when due
Decayed(g, t, i) ==
    LET cell == g[i + 1]
        ns   == MainNeighbors(g, i % width, i \div width)
    IN  IF DecayDue(t, i)
        THEN [cell EXCEPT !.troops = MainDecay(cell.troops, NumOfFriendlies(cell, ns))]
        ELSE cell

\* the closure of the map for the cell of index i (from 0) at tick t, with
\* the draws d of that cell
MainUpdateCell(g, t, i, d) ==
    LET ns == MainNeighbors(g, i % width, i \div width)
    IN  Extinct(Contend(ns, Ranked(ns), 1, Decayed(g, t, i),
                        NumOfFriendlies(g[i + 1], ns), d))

\* the draws of one generation, one per cell (index from 0): the
\* representative pick and the multiplier
MainDraws(s, i) ==
    [pick |-> (s + 3 * i) % 8,
     mult |-> MainMultOf((s \div 2) + i)]

\* .enumerate().map(..).collect()
MainMap(old, t, s) ==
    [k \in DOMAIN old |-> MainUpdateCell(old, t, k - 1, MainDraws(s, k - 1))]

\* World::new of main.rs
MainNew(w, h) ==
    /\ width = w
    /\ height = h
    /\ cells = [i \in 1..(w * h) |->
                  IF i = w * h THEN [owner |-> 3, troops |-> 150]
                  ELSE IF i = 1 THEN [owner |-> 1, troops |-> MaxTroops8]
                  ELSE CellDefault]
    /\ empires = <<[id |-> 1], [id |-> 2], [id |-> 3]>>
    /\ tick = 0

MainDims == (1..MainSide) \X (1..MainSide)

InitMain ==
    /\ \E d \in MainDims : MainNew(d[1], d[2])
    /\ panicked = FALSE
    /\ paints = 0
    /\ call = NoCall
    /\ nbuf = <<>>
    /\ pending = {}
    /\ draws = <<>>
    /\ seeded = 0

MainUpdate ==
    /\ tick < MainTick
    /\ \E s \in 0..(MainSeeds - 1) : cells' = MainMap(cells, tick, s)
    /\ tick' = tick + 1
    /\ call' = Called("main_update")
    /\ UNCHANGED <<width, height, empires, panicked, paints, par, seeded>>

NextMain == MainUpdate

SpecMain == InitMain /\ [][NextMain]_vars

(***************************************************************************)
(* Properties.                                                             *)
(***************************************************************************)
\* the coordinates of the i-th element of the row-major vector
XOf(i) == (i - 1) % width
YOf(i) == (i - 1) \div width

CellInv(c) == (c.owner = 0) <=> (c.troops = 0)

UpdateStep == call'.op = "update"

\* C1: an update started from a grid in which every cell satisfies
\* owner = 0 <=> troops = 0 ends in a grid in which every cell satisfies it.
C1_UpdateKeepsCellInvariant ==
    [][(UpdateStep /\ \A i \in DOMAIN cells : CellInv(cells[i]))
          => \A i \in DOMAIN cells' : CellInv(cells'[i])]_vars

\* C2: every cell written by an update is a value the loop body computes from
\* the generation-N grid alone (the cell, its 8 neighbours, its draws),
\* whatever its position in the iteration order.
C2_ReadsOnlyGenerationN ==
    [][UpdateStep
          => \A i \in DOMAIN cells :
                cells'[i] \in Outcomes(cells, XOf(i), YOf(i))]_vars

\* a 2x1 grid with one painted cell, one update later: the second cell holds
\* the saturated capture from the old value of the first, whose new value is
\* lower
C2_Witness ==
    /\ call.op = "update" /\ tick = 1 /\ paints = 1 /\ Len(empires) = 0
    /\ width = 2 /\ height = 1
    /\ cells[1] = [owner |-> 1, troops |-> 64224]
    /\ cells[2] = [owner |-> 1, troops |-> MaxTroops]

\* C4: after an update every troop count is in 0..65535, and a cell that did
\* not merely decay took the owner of a generation-N neighbour with n troops
\* (n above the decayed count) and between floor(0.98 n) and
\* min(65535, floor(1.01 n)) troops: the product saturates, it never wraps.
C4_TroopsSaturate ==
    [][UpdateStep
          => \A i \in DOMAIN cells :
                LET old   == cells[i]
                    new   == cells'[i]
                    d     == (old.troops * 95) \div 100
                    stays == IF old.owner = 0 THEN CellDefault
                             ELSE [owner |-> old.owner, troops |-> d]
                    ns    == Neighbors(cells, XOf(i), YOf(i))
                IN  /\ new.troops \in 0..MaxTroops
                    /\ \/ new = stays
                       \/ \E k \in DOMAIN ns :
                            LET n == ns[k].val.troops IN
                            /\ ns[k].some
                            /\ n > d
                            /\ new.owner = ns[k].val.owner
                            /\ new.troops >= (n * 98) \div 100
                            /\ new.troops <= Min(MaxTroops, (n * 101) \div 100)]_vars

\* an update has produced a cell with 65535 troops: 65535 * 1.009 saturated
C4_Witness ==
    /\ call.op = "update"
    /\ \E i \in DOMAIN cells : cells[i].troops = MaxTroops

\* C5: cells.len() = width * height after World::new, every update and every
\* Randomize, for all widths and heights.
C5_SizeInvariant == Len(cells) = width * height

\* a Randomize on a non-square grid after an update
C5_Witness ==
    /\ call.op = "randomize" /\ tick >= 1
    /\ width # height /\ width * height > 1
    /\ \E i \in DOMAIN cells : cells[i].owner # 0

\* C6: tick starts at 0, every update adds exactly 1 to it and nothing else
\* changes it, whatever the grid holds.
C6_TickCountsUpdates ==
    /\ tick = 0
    /\ [][/\ UpdateStep => tick' = tick + 1
          /\ ~UpdateStep => tick' = tick]_vars

\* two updates of a grid that holds an owned cell
C6_Witness ==
    /\ call.op = "update" /\ tick = 2
    /\ \E i \in DOMAIN cells : cells[i].owner # 0

\* C7: an update of a grid whose cells are all unclaimed leaves every cell
\* unclaimed with 0 troops.
C7_NoSpontaneousOwnership ==
    [][(UpdateStep /\ \A i \in DOMAIN cells : cells[i].owner = 0)
          => \A i \in DOMAIN cells' : cells'[i] = CellDefault]_vars

\* two updates of a never painted grid of 4 cells
C7_Witness ==
    /\ call.op = "update" /\ tick = 2 /\ paints = 0
    /\ Len(cells) = 2
    /\ \A i \in DOMAIN cells : cells[i] = CellDefault

\* C3: with the draws of every cell fixed, the cells computed in any order by
\* workers that read the old buffer and write their own slot hold exactly the
\* values the sequential x-outer / y-inner loop writes.
C3_AnyOrderSameGrid ==
    \A i \in DOMAIN nbuf :
        i \notin pending
            => nbuf[i] = SeqUpdate(cells, draws, width * height)[i]

\* a whole generation of a 2x2 grid computed, at least two cells changed
C3_Witness ==
    /\ pending = {} /\ width = 2 /\ height = 2 /\ Len(nbuf) = 4
    /\ \E i, j \in DOMAIN nbuf :
         i # j /\ nbuf[i] # cells[i] /\ nbuf[j] # cells[j]

\* C8: on a grid seeded with a single cell of one empire e, every owner is 0
\* or e after any number of updates.
C8_SingleEmpire ==
    seeded # 0 => \A i \in DOMAIN cells : cells[i].owner \in {0, seeded}

\* the 3x3 grid seeded at (1,1), one update later: the centre has decayed and
\* the 8 other cells belong to the empire
C8_Witness ==
    /\ seeded # 0 /\ width = 3 /\ height = 3 /\ tick = 1
    /\ cells[5] = [owner |-> seeded, troops |-> 62258]
    /\ \A i \in DOMAIN cells : cells[i].owner = seeded

InGrid(x, y) == x \in 0..(width - 1) /\ y \in 0..(height - 1)

\* C9: a set with x outside [0, width) or y outside [0, height) panics and
\* leaves the cells, width, height, empires and tick as they were.
C9_SetOutOfRangeFails ==
    [][(call'.op = "set" /\ ~InGrid(call'.x, call'.y))
          => (panicked' /\ UNCHANGED world)]_vars

\* set(-1, 1, ..) on a 2x2 grid, whose flat index 1 is the cell (1, 0)
C9_Witness ==
    /\ call.op = "set" /\ call.x = -1 /\ call.y = 1
    /\ width = 2 /\ height = 2
    /\ panicked
    /\ \A i \in DOMAIN cells : cells[i] = CellDefault

\* C10: for width >= 1 and height >= 1, get(x, y) is never absent and is the
\* cell stored at (x mod width, y mod height); all 8 neighbour lookups of
\* every cell are present.
C10_GetIsToroidal ==
    /\ (call.op = "get" /\ ~panicked)
          => /\ call.res.some
             /\ \A cx \in 0..(width - 1), cy \in 0..(height - 1) :
                   ((call.x - cx) % width = 0 /\ (call.y - cy) % height = 0)
                      => call.res.val = cells[cy * width + cx + 1]
    /\ \A i \in DOMAIN cells :
          \A k \in 1..8 : Neighbors(cells, XOf(i), YOf(i))[k].some

\* get(-1, height) on a 2x2 grid returned the painted cell (1, 0)
C10_Witness ==
    /\ call.op = "get" /\ call.x = -1 /\ call.y = height
    /\ width = 2 /\ height = 2
    /\ cells[2].owner # 0
    /\ call.res = Some(cells[2])

\* the 8 neighbours gathered for the cell (x, y) are the cells at 8 distinct
\* flat indexes, none the cell's own, each at most one column and one row
\* away from it around the torus
MooreAt(x, y) ==
    LET idx == NeighborIndexes(x, y)
        ns  == Neighbors(cells, x, y)
    IN  /\ \A k \in 1..8 :
              /\ ns[k] = Some(cells[idx[k] + 1])
              /\ idx[k] # y * width + x
              /\ ((idx[k] % width) - x) % width \in {0, 1, width - 1}
              /\ ((idx[k] \div width) - y) % height \in {0, 1, height - 1}
        /\ \A j, k \in 1..8 : j # k => idx[j] # idx[k]

MooreEverywhere ==
    \A x \in 0..(width - 1), y \in 0..(height - 1) : MooreAt(x, y)

\* C11 as stated: on every grid with width >= 1 and height >= 1 the 8
\* neighbours gathered for every cell are 8 distinct adjacent cells and never
\* the cell itself.
C11_MooreEveryGrid == (width >= 1 /\ height >= 1) => MooreEverywhere

\* C11 amended: on every grid with width >= 3 and height >= 3 the 8
\* neighbours gathered for every cell are 8 distinct cells adjacent to it
\* around the torus and never the cell itself.
C11_MooreFromThreeByThree == (width >= 3 /\ height >= 3) => MooreEverywhere

\* the 3x3 grid seeded at the corner (0, 0), one update later: the 8 other
\* cells, all reached from the corner around the edges, took its troops
C11_Witness ==
    /\ width = 3 /\ height = 3 /\ tick = 1 /\ call.op = "update"
    /\ seeded # 0
    /\ cells[1] = [owner |-> seeded, troops |-> 62258]
    /\ \A i \in 2..9 : cells[i].owner = seeded /\ cells[i].troops >= 64224

\* C12: the k-th empire of the registry (k counted from 1) has id k at all
\* times; "Add empire" appends one empire whose id is the length before the
\* push plus 1, and no other operation changes the registry.
C12_EmpireIdsAreInsertionOrder ==
    /\ [](\A k \in DOMAIN empires : empires[k].id = k)
    /\ [][IF call'.op = "add_empire"
          THEN empires' = Append(empires, [id |-> Len(empires) + 1])
          ELSE empires' = empires]_vars

\* two empires added, the second after an update and a Randomize
C12_Witness ==
    /\ call.op = "add_empire" /\ Len(empires) = 2 /\ tick >= 1
    /\ \E i \in DOMAIN cells : cells[i].owner = 1

\* the multipliers of gen_range(0.98..1.01), in thousandths
MultRange == 980..1009

\* C13: a cell whose owner or troops changed in an update other than by decay
\* took both from one generation-N neighbour n whose troops exceed the
\* cell's decayed troops: the owner of n and the troops of n scaled by one
\* multiplier in [0.98, 1.01).
C13_OneRulePerCell ==
    [][UpdateStep
          => \A i \in DOMAIN cells :
                LET old     == cells[i]
                    new     == cells'[i]
                    decayed == (old.troops * 95) \div 100
                    ns      == Neighbors(cells, XOf(i), YOf(i))
                IN  \/ new.owner = old.owner /\ new.troops = decayed
                    \/ old.owner = 0 /\ new = CellDefault
                    \/ \E k \in DOMAIN ns, m \in MultRange :
                          /\ ns[k].val.troops > decayed
                          /\ new.owner = ns[k].val.owner
                          /\ new.troops
                                = Min(MaxTroops, (ns[k].val.troops * m) \div 1000)]_vars

\* a 2x1 grid seeded with one cell of each empire, one update later: each
\* cell was captured by the other empire, owner and troops from that cell
C13_Witness ==
    /\ call.op = "update" /\ tick = 1 /\ width = 2 /\ height = 1
    /\ cells[1] = [owner |-> 2, troops |-> 64224]
    /\ cells[2] = [owner |-> 1, troops |-> MaxTroops]

\* C14: decay follows a period: in every update there is a period P, from 2
\* to the period of main.rs, such that every cell of index i (counted from 0)
\* with (tick + i) mod P # 0 that is owned and has no neighbour with more
\* troops than it keeps its troop count.
C14_DecayOnlyPeriodically ==
    [][UpdateStep
          => \E P \in 2..DecayPeriod :
                \A i \in DOMAIN cells :
                    LET ns == Neighbors(cells, XOf(i), YOf(i)) IN
                    ( /\ (tick + (i - 1)) % P # 0
                      /\ cells[i].owner # 0
                      /\ \A k \in DOMAIN ns : ns[k].val.troops <= cells[i].troops )
                        => cells'[i].troops = cells[i].troops]_vars

\* C15: in an update a cell none of whose generation-N neighbours has more
\* troops than floor(0.95 * its troops) keeps its owner and ends with exactly
\* floor(0.95 * troops) troops, 0 if it is unclaimed; a cell whose owner
\* changed had a neighbour with more troops than its decayed count.
C15_QuietCellOnlyDecays ==
    [][UpdateStep
          => \A i \in DOMAIN cells :
                LET old     == cells[i]
                    new     == cells'[i]
                    decayed == (old.troops * 95) \div 100
                    ns      == Neighbors(cells, XOf(i), YOf(i))
                    louder  == \E k \in DOMAIN ns : ns[k].val.troops > decayed
                IN  /\ ~louder
                          => /\ new.owner = old.owner
                             /\ new.troops = IF old.owner = 0 THEN 0 ELSE decayed
                    /\ new.owner # old.owner => louder]_vars

\* a 2x2 grid seeded with one cell of 65535 troops, one update later: the
\* seed, whose 8 lookups found unclaimed cells only, kept its owner and has
\* 62258 troops
C15_Witness ==
    /\ call.op = "update" /\ tick = 1 /\ width = 2 /\ height = 2
    /\ Len(empires) = 1
    /\ \E i \in DOMAIN cells :
          /\ cells[i] = [owner |-> 1, troops |-> 62258]
          /\ \A j \in DOMAIN cells \ {i} : cells[j].troops >= 64224

\* C19: after a Randomize every cell of the grid satisfies
\* owner = 0 <=> troops = 0.
C19_RandomizeKeepsCellInvariant ==
    call.op = "randomize" => \A i \in DOMAIN cells : CellInv(cells[i])

\* C20: after any sequence of Add empire, Randomize, update and draw from
\* World::new every owner is 0 or between 1 and the number of empires, and
\* no draw fails on its colour lookup.
C20_OwnersAreRegistered ==
    /\ \A i \in DOMAIN cells :
          cells[i].owner = 0
             \/ (1 <= cells[i].owner /\ cells[i].owner <= Len(empires))
    /\ call.op = "draw" => ~panicked

\* a draw after an update of a grid that holds a cell of the last empire
C20_Witness ==
    /\ call.op = "draw" /\ tick >= 1 /\ Len(empires) = 2
    /\ \E i \in DOMAIN cells : cells[i].owner = 2 /\ cells[i].troops > 0
    /\ \E i \in DOMAIN cells : cells[i].owner = 1

MainStep == call'.op = "main_update"

\* C18: from the grid seeded by World::new of main.rs, every cell of every
\* grid reached by update calls satisfies owner = 0 <=> troops = 0.
C18_MainKeepsCellInvariant == \A i \in DOMAIN cells : CellInv(cells[i])

\* the 3x3 grid one update after World::new: the seed of empire 1, alone at
\* a decay generation, fell to 0 troops and was reset to unclaimed, while the
\* cell beside it was captured from its generation-0 troops
C18_Witness ==
    /\ call.op = "main_update" /\ tick = 1 /\ width = 3 /\ height = 3
    /\ cells[1] = CellDefault
    /\ cells[2].owner = 1 /\ cells[2].troops >= 247
    /\ cells[9] = [owner |-> 3, troops |-> 150]

\* the neighbours present around the cell of index i (from 1) in the grid
\* before the step
Around(i) == MainNeighbors(cells, (i - 1) % width, (i - 1) \div width)

\* the number of neighbours in ns owned by o
Holds(ns, o) == Cardinality({ k \in DOMAIN ns : ns[k].owner = o })

\* C16: in an update of main.rs a cell with fewer than 2 friendly neighbours
\* and at least one owned neighbour ends unclaimed with 0 troops, or with
\* troops and owned by an empire that has a neighbour of the cell and at
\* least as many of them as every other empire.
C16_MostNumerousEmpireApplies ==
    [][MainStep
          => \A i \in DOMAIN cells :
                LET ns       == Around(i)
                    old      == cells[i]
                    new      == cells'[i]
                    friendly == IF old.owner = 0 THEN 0 ELSE Holds(ns, old.owner)
                IN  (friendly < 2 /\ \E k \in DOMAIN ns : ns[k].owner # 0)
                      => IF new.troops = 0 THEN new.owner = 0
                         ELSE /\ Holds(ns, new.owner) >= 1
                              /\ \A k \in DOMAIN ns :
                                    ns[k].owner # 0
                                       => Holds(ns, new.owner) >= Holds(ns, ns[k].owner)]_vars

\* the 3x3 grid three updates after World::new.  Before the third, the corner
\* cell 8 of empire 3 had one friendly neighbour (cell 4) and two neighbours
\* of empire 1 (cells 5 and 7, 255 troops each): it went to empire 1
C16_Witness ==
    /\ call.op = "main_update" /\ tick = 3 /\ width = 3 /\ height = 3
    /\ cells[9] = [owner |-> 1, troops |-> 247]
    /\ cells[5] = [owner |-> 1, troops |-> 247]
    /\ cells[6] = [owner |-> 3, troops |-> 156]
    /\ cells[8] = [owner |-> 3, troops |-> 149]

\* C17: in an update of main.rs a cell with 2 or more friendly neighbours
\* changes to another empire only if a neighbour of that empire has more
\* troops than the cell after its decay; otherwise it keeps its owner, or
\* ends unclaimed with 0 troops.
C17_SupportedCellFallsToStronger ==
    [][MainStep
          => \A i \in DOMAIN cells :
                LET ns       == Around(i)
                    old      == cells[i]
                    new      == cells'[i]
                    friendly == IF old.owner = 0 THEN 0 ELSE Holds(ns, old.owner)
                    post     == IF (tick + (i - 1)) % 5 = 0
                                THEN (old.troops * friendly) \div 10
                                ELSE old.troops
                IN  friendly >= 2
                      => \/ new.owner = old.owner
                         \/ new = CellDefault
                         \/ \E k \in DOMAIN ns :
                               ns[k].owner = new.owner /\ ns[k].troops > post]_vars

\* the 3x3 grid two updates after World::new.  Before the second, cell 5 of
\* empire 3 (152 troops, friendly cells 4, 7 and 8, none above 152) had the
\* neighbour cell 1 of empire 1 with 255 troops and went to empire 1; cell 4
\* of empire 3, with 3 friendly neighbours, stayed with empire 3
C17_Witness ==
    /\ call.op = "main_update" /\ tick = 2 /\ width = 3 /\ height = 3
    /\ cells[6] = [owner |-> 1, troops |-> 255]
    /\ cells[5] = [owner |-> 3, troops |-> 147]
    /\ cells[9] = [owner |-> 3, troops |-> 147]
    /\ cells[1] = [owner |-> 1, troops |-> 247]

\* C21: in a rendering of the World Info panel the label "Winner winner
\* chicken dinner" is under an empire exactly when every other registered
\* empire owns no cell.
C21_WinnerLabelUnderLastOwner ==
    call.op = "world_info"
       => \A e \in DOMAIN empires :
             (empires[e].id \in call.labels)
                <=> \A o \in DOMAIN empires \ {e} : CellsOf(empires[o].id) = 0
====
